---- MODULE Spec2Model ----
(***************************************************************************)
(* Model of youtube_downloader.py: extract_index_from_url and the control  *)
(* flow of download_video against the retrieval engine (yt_dlp.YoutubeDL)  *)
(* and the dialogs it raises.                                              *)
(*                                                                         *)
(* A URL is what urlparse/parse_qs see of it: whether urlsplit accepts the *)
(* network location (it raises ValueError on an unbalanced '['), and the   *)
(* query component as the sequence of its name=value fields.  A value is   *)
(* the sequence of its characters, so int() is modelled on the characters. *)
(* Python's None is the empty tuple <<>>, a present value x is <<x>>.      *)
(***************************************************************************)
EXTENDS Integers, Sequences, FiniteSets, TLC

(* video_url, preferred_quality : the arguments of download_video (l. 85); *)
(*   preferred_quality is reassigned on l. 92, requested keeps the label   *)
(*   the caller passed                                                     *)
(* index, ydl_opts, info : the locals of download_video (l. 87, 94, 104)   *)
(* pc    : the position in download_video; "returned" and "raised" end it  *)
(* error : the exception that ended the run, "none" while there is none    *)
(* log   : the dialogs, prints and engine calls made so far, in order      *)
VARIABLES video_url, requested, preferred_quality, pc, index, ydl_opts, info, log, error

vars == <<video_url, requested, preferred_quality, pc, index, ydl_opts, info, log, error>>

(* ------------------------------ bounds -------------------------------- *)

MaxParams == 2

MaxEntries == 3

(* ------------------------------ inputs -------------------------------- *)

None == <<>>

Some(x) == <<x>>

Digits == {"0", "1", "2", "3", "4", "5", "6", "7", "8", "9"}

IndexValues ==
  { <<>>, <<"0">>, <<"1">>, <<"2">>, <<"3">>, <<"0", "2">>, <<"5", "0">>,
    <<"-", "3">>, <<"a", "b", "c">>, <<"2", "x">> }

Params == { <<"index", v>> : v \in IndexValues } \cup { <<"list", <<"x", "y", "z">> >> }

SeqsUpTo(S, n) == UNION { [1..k -> S] : k \in 0..n }

URLs == [netlocOk : BOOLEAN, query : SeqsUpTo(Params, MaxParams)]

Qualities == {"2160", "1440", "1080", "720", "480", "9999", "1080p"}

(* ----------------------- extract_index_from_url ----------------------- *)

urlparse(url) ==
  IF url.netlocOk THEN [ok |-> TRUE, query |-> url.query]
                  ELSE [ok |-> FALSE, query |-> <<>>]

IsBlank(field) == Len(field[2]) = 0

parse_qs(query) ==
  LET kept == SelectSeq(query, LAMBDA f : ~IsBlank(f))
      names == { kept[i][1] : i \in 1..Len(kept) }
      valuesOf(n) ==
        LET fs == SelectSeq(kept, LAMBDA f : f[1] = n)
        IN  [i \in 1..Len(fs) |-> fs[i][2]]
  IN  [n \in names |-> valuesOf(n)]

DigitVal(c) ==
  CASE c = "0" -> 0 [] c = "1" -> 1 [] c = "2" -> 2 [] c = "3" -> 3
    [] c = "4" -> 4 [] c = "5" -> 5 [] c = "6" -> 6 [] c = "7" -> 7
    [] c = "8" -> 8 [] c = "9" -> 9

AllDigits(s) == Len(s) > 0 /\ \A i \in 1..Len(s) : s[i] \in Digits

RECURSIVE DecValue(_)
DecValue(s) ==
  IF Len(s) = 0 THEN 0
  ELSE 10 * DecValue(SubSeq(s, 1, Len(s) - 1)) + DigitVal(s[Len(s)])

PyInt(s) ==
  IF AllDigits(s) THEN [ok |-> TRUE, val |-> DecValue(s)]
  ELSE IF Len(s) > 1 /\ s[1] \in {"-", "+"} /\ AllDigits(Tail(s))
       THEN [ok |-> TRUE,
             val |-> IF s[1] = "-" THEN 0 - DecValue(Tail(s)) ELSE DecValue(Tail(s))]
       ELSE [ok |-> FALSE, val |-> 0]

Returned(v) == [raised |-> FALSE, value |-> v]

Raised == [raised |-> TRUE, value |-> None]

(* mutant: takes the last value of the index parameter, not the first *)
extract_index_last_value(url) ==
  LET parsed_url == urlparse(url)
  IN  IF ~parsed_url.ok THEN Raised
      ELSE LET query_params == parse_qs(parsed_url.query)
           IN  IF "index" \in DOMAIN query_params
               THEN LET vs == query_params["index"]
                        n == PyInt(vs[Len(vs)])
                    IN  IF n.ok THEN Returned(Some(n.val)) ELSE Raised
               ELSE Returned(None)

extract_index_from_url(url) ==
  LET parsed_url == urlparse(url)
  IN  IF ~parsed_url.ok THEN Raised
      ELSE LET query_params == parse_qs(parsed_url.query)
           IN  IF "index" \in DOMAIN query_params
               THEN LET n == PyInt(query_params["index"][1])
                    IN  IF n.ok THEN Returned(Some(n.val)) ELSE Raised
               ELSE Returned(None)

(* --------------------------- download_video --------------------------- *)

(* mutant: the tiers listed in ascending order, so the default is the lowest *)
quality_options_ascending == <<"480", "720", "1080", "1440", "2160">>

quality_options == <<"2160", "1440", "1080", "720", "480">>

InOptions(q) == \E i \in 1..Len(quality_options) : quality_options[i] = q

FormatFor(q) ==
  "bestvideo[height<=" \o q \o "][ext=mp4]+bestaudio[ext=m4a]/best[ext=mp4]"

(* mutant: single-item mode left off *)
BuildOptsPlaylistMode(q) ==
  [format |-> FormatFor(q), merge_output_format |-> "mp4", noplaylist |-> FALSE]

BuildOpts(q) == [format |-> FormatFor(q), merge_output_format |-> "mp4", noplaylist |-> TRUE]

Event(kind, arg) == [kind |-> kind, arg |-> arg]

(* The engine's answer to extract_info(download=False): one item, or a    *)
(* collection whose "entries" list holds items with title, id and url.    *)
DigitChar(k) == CHOOSE c \in Digits : DigitVal(c) = k

EntryUrl(k) == [netlocOk |-> TRUE, query |-> << <<"v", <<DigitChar(k)>> >> >>]

Entry(k) == [title |-> k, id |-> k, url |-> EntryUrl(k)]

Infos ==
  { [title |-> 0] } \cup
  { [title |-> 0, entries |-> [k \in 1..n |-> Entry(k)]] : n \in 0..MaxEntries }

(* Python list subscript L[i]: 0-based, a negative i counts from the end. *)
PyItem(L, i) == IF i >= 0 THEN L[i + 1] ELSE L[Len(L) + i + 1]

IsIndexedPlaylist(inf, idx) == "entries" \in DOMAIN inf /\ idx # None

InRange(idx, entries) == 1 <= idx /\ idx <= Len(entries)

(* mutant: the 0-based adjustment applied twice *)
SelectEntryAdjustedTwice(entries, idx) == PyItem(entries, idx - 2)

SelectEntry(entries, idx) == PyItem(entries, idx - 1)

Init ==
  /\ video_url \in URLs
  /\ requested \in Qualities
  /\ preferred_quality = requested
  /\ pc = "extract_index"
  /\ index = None
  /\ ydl_opts = None
  /\ info = None
  /\ log = <<>>
  /\ error = "none"

(* line 87 *)
ExtractIndex ==
  /\ pc = "extract_index"
  /\ LET r == extract_index_from_url(video_url)
     IN  IF r.raised
         THEN /\ pc' = "raised"
              /\ error' = "ValueError"
              /\ index' = index
         ELSE /\ pc' = "build_opts"
              /\ index' = r.value
              /\ error' = error
  /\ UNCHANGED <<video_url, requested, preferred_quality, ydl_opts, info, log>>

(* lines 88-101 *)
CheckQuality ==
  /\ pc = "build_opts"
  /\ LET bad == ~InOptions(preferred_quality)
         q == IF bad THEN quality_options[1] ELSE preferred_quality
     IN  /\ log' = IF bad THEN Append(log, Event("warning", None)) ELSE log
         /\ preferred_quality' = q
         /\ ydl_opts' = Some(BuildOpts(q))
  /\ pc' = "inspect"
  /\ UNCHANGED <<video_url, requested, index, info, error>>

(* lines 103-104: the engine answers with metadata, or raises *)
InspectOk ==
  /\ pc = "inspect"
  /\ \E inf \in Infos : info' = Some(inf)
  /\ log' = Append(log, Event("inspect", Some(video_url)))
  /\ pc' = "plan"
  /\ UNCHANGED <<video_url, requested, preferred_quality, index, ydl_opts, error>>

InspectFail ==
  /\ pc = "inspect"
  /\ log' = Append(log, Event("inspect", Some(video_url)))
  /\ pc' = "raised"
  /\ error' = "EngineError"
  /\ UNCHANGED <<video_url, requested, preferred_quality, index, ydl_opts, info>>

(* mutant: a failed download is swallowed and the run carries on *)
DownloadSwallowsFailure(target, before) ==
  \E ok \in BOOLEAN :
    /\ log' = log \o before \o
              (IF ok THEN <<Event("download", <<target>>), Event("download_returned", None)>>
                     ELSE <<Event("download", <<target>>)>>)
    /\ pc' = "success_box"
    /\ error' = (IF ok THEN error ELSE "EngineError")

(* ydl.download([target]): returns, or raises *)
Download(target, before) ==
  \E ok \in BOOLEAN :
    IF ok
    THEN /\ log' = log \o before \o
                   <<Event("download", <<target>>), Event("download_returned", None)>>
         /\ pc' = "success_box"
         /\ error' = error
    ELSE /\ log' = log \o before \o <<Event("download", <<target>>)>>
         /\ pc' = "raised"
         /\ error' = "EngineError"

(* lines 106-111 *)
DownloadIndexed ==
  /\ pc = "plan"
  /\ IsIndexedPlaylist(info[1], index)
  /\ InRange(index[1], info[1].entries)
  /\ LET entry == SelectEntry(info[1].entries, index[1])
     IN  Download(entry.url,
                  <<Event("print_playlist", index), Event("print_entry", Some(entry.id))>>)
  /\ UNCHANGED <<video_url, requested, preferred_quality, index, ydl_opts, info>>

(* mutant: the return after the out-of-range error is missing *)
OutOfRangeFallsThrough ==
  /\ pc = "plan"
  /\ IsIndexedPlaylist(info[1], index)
  /\ ~InRange(index[1], info[1].entries)
  /\ log' = log \o <<Event("print_playlist", index), Event("critical", index)>>
  /\ pc' = "success_box"
  /\ UNCHANGED <<video_url, requested, preferred_quality, index, ydl_opts, info, error>>

(* lines 106-108, 112-114 *)
OutOfRange ==
  /\ pc = "plan"
  /\ IsIndexedPlaylist(info[1], index)
  /\ ~InRange(index[1], info[1].entries)
  /\ log' = log \o <<Event("print_playlist", index), Event("critical", index)>>
  /\ pc' = "returned"
  /\ UNCHANGED <<video_url, requested, preferred_quality, index, ydl_opts, info, error>>

(* mutant: a present index is range-checked (>= 1) for a single item too *)
DownloadSingleValidatesIndex ==
  /\ pc = "plan"
  /\ ~IsIndexedPlaylist(info[1], index)
  /\ IF index # None /\ index[1] < 1
     THEN /\ log' = Append(log, Event("critical", index))
          /\ pc' = "returned"
          /\ error' = error
     ELSE Download(video_url, <<Event("print_single", None)>>)
  /\ UNCHANGED <<video_url, requested, preferred_quality, index, ydl_opts, info>>

(* lines 115-117 *)
DownloadSingle ==
  /\ pc = "plan"
  /\ ~IsIndexedPlaylist(info[1], index)
  /\ Download(video_url, <<Event("print_single", None)>>)
  /\ UNCHANGED <<video_url, requested, preferred_quality, index, ydl_opts, info>>

(* lines 119-121 *)
ShowSuccess ==
  /\ pc = "success_box"
  /\ log' = Append(log, Event("success", None))
  /\ pc' = "returned"
  /\ UNCHANGED <<video_url, requested, preferred_quality, index, ydl_opts, info, error>>

Next ==
  \/ ExtractIndex
  \/ CheckQuality
  \/ InspectOk
  \/ InspectFail
  \/ DownloadIndexed
  \/ OutOfRange
  \/ DownloadSingle
  \/ ShowSuccess

Spec == Init /\ [][Next]_vars

(* ------------------------- reading the event log ----------------------- *)

At(kind) == { i \in 1..Len(log) : log[i].kind = kind }

Count(kind) == Cardinality(At(kind))

EngineCalls == At("inspect") \cup At("download")

Finished == pc \in {"returned", "raised"}

IndexResolved == pc # "extract_index" /\ error # "ValueError"

IndexFields(url) == { i \in 1..Len(url.query) : url.query[i][1] = "index" }

NonBlankIndexFields(url) == { i \in IndexFields(url) : Len(url.query[i][2]) > 0 }

(* the index value parse_qs reports first: that of the first non-blank field *)
HasIndexValue(url, v) ==
  \E i \in NonBlankIndexFields(url) :
    /\ url.query[i][2] = v
    /\ \A j \in NonBlankIndexFields(url) : i <= j

RECURSIVE Numeral(_)
Numeral(n) ==
  IF n < 10 THEN <<DigitChar(n)>> ELSE Append(Numeral(n \div 10), DigitChar(n % 10))

MaxIndexChecked == 60

Tiers == {"2160", "1440", "1080", "720", "480"}

CappedAt(t) == "bestvideo[height<=" \o t \o "][ext=mp4]+bestaudio[ext=m4a]/best[ext=mp4]"

IsCollection == info # None /\ "entries" \in DOMAIN info[1]

CollectionSize == Len(info[1].entries)

(* ------------------------------- claims -------------------------------- *)

(* C1: once extract_index_from_url has run on a URL that urlparse accepts, *)
(* a query with no index field gives None (and no exception), and a query  *)
(* whose index value is the numeral of a positive integer N gives N.       *)
Thm_C1 ==
  (pc # "extract_index" /\ video_url.netlocOk) =>
    /\ IndexFields(video_url) = {} => (error # "ValueError" /\ index = None)
    /\ \A n \in 1..MaxIndexChecked :
         HasIndexValue(video_url, Numeral(n)) => (error # "ValueError" /\ index = Some(n))

Wit_C1 ==
  /\ pc = "build_opts"
  /\ HasIndexValue(video_url, Numeral(50))
  /\ index = Some(50)

(* C2: extract_index_from_url never raises; a non-numeric or missing index *)
(* value, or a malformed URL, gives None and download_video goes on.       *)
Cex_C2 ==
  pc # "extract_index" =>
    /\ error # "ValueError"
    /\ (\/ ~video_url.netlocOk
        \/ NonBlankIndexFields(video_url) = {}
        \/ \E v \in IndexValues : HasIndexValue(video_url, v) /\ ~PyInt(v).ok)
       => index = None

(* C3: the resolved index is absent or a positive integer (>= 1).          *)
Cex_C3 == IndexResolved => (index = None \/ index[1] >= 1)

(* C4: the format expression handed to the engine is capped at the         *)
(* requested label when it is one of the five tiers, with no warning;      *)
(* otherwise the warning is raised and the cap is 2160.  The cap is always *)
(* one of the five tiers.                                                  *)
Thm_C4 ==
  ydl_opts # None =>
    /\ requested \in Tiers =>
         (ydl_opts[1].format = CappedAt(requested) /\ Count("warning") = 0)
    /\ requested \notin Tiers =>
         (ydl_opts[1].format = CappedAt("2160") /\ Count("warning") = 1)
    /\ \E t \in Tiers : ydl_opts[1].format = CappedAt(t)

Wit_C4 ==
  /\ requested = "9999"
  /\ ydl_opts # None
  /\ Count("warning") = 1
  /\ Count("download") = 1

(* C5: with a resolved index inside 1..S of a collection of size S, the    *)
(* one download issued is that of entries[index-1], the item at 1-based    *)
(* position index, and nothing else is downloaded.                         *)
Thm_C5 ==
  (IndexResolved /\ index # None /\ IsCollection
     /\ 1 <= index[1] /\ index[1] <= CollectionSize) =>
    /\ \A i \in At("download") : log[i].arg = <<EntryUrl(index[1])>>
    /\ Count("download") = (IF pc = "plan" THEN 0 ELSE 1)
    /\ Count("critical") = 0

Wit_C5 ==
  /\ index = Some(2)
  /\ IsCollection
  /\ CollectionSize = 3
  /\ Count("download") = 1
  /\ pc = "returned"

(* C6: with a resolved index outside 1..S of a collection of size S, the   *)
(* out-of-range error is signalled and the run returns: no download call   *)
(* is made and the success dialog is not shown.                            *)
Thm_C6 ==
  (IndexResolved /\ index # None /\ IsCollection
     /\ ~(1 <= index[1] /\ index[1] <= CollectionSize)) =>
    /\ Count("download") = 0
    /\ Count("success") = 0
    /\ pc \in {"plan", "returned"}
    /\ pc = "returned" => (Count("critical") = 1 /\ error = "none")

Wit_C6 ==
  /\ index = Some(50)
  /\ IsCollection
  /\ CollectionSize = 3
  /\ pc = "returned"
  /\ Count("critical") = 1

(* C7: with no resolved index the engine runs in single-item mode and the  *)
(* only target ever downloaded is the original URL; no entry is selected   *)
(* or read and out-of-range is never signalled, collection or not; a run   *)
(* that returns has downloaded the original URL once.                      *)
Thm_C7 ==
  (IndexResolved /\ index = None) =>
    /\ ydl_opts # None => ydl_opts[1].noplaylist
    /\ \A i \in At("download") : log[i].arg = <<video_url>>
    /\ Count("print_playlist") = 0
    /\ Count("print_entry") = 0
    /\ Count("critical") = 0
    /\ Count("download") <= 1
    /\ pc = "returned" => (Count("download") = 1 /\ Count("success") = 1)

Wit_C7 ==
  /\ IndexResolved
  /\ index = None
  /\ IsCollection
  /\ CollectionSize = 3
  /\ pc = "returned"
  /\ Count("download") = 1

(* C8: a failure of the engine's inspection or download is not caught and  *)
(* not retried: the run ends there, each engine operation was invoked at   *)
(* most once, and the success dialog is not shown.                         *)
Thm_C8 ==
  /\ error = "EngineError" =>
       /\ pc = "raised"
       /\ Count("inspect") = 1
       /\ Count("download") <= 1
       /\ Count("download_returned") = 0
       /\ Count("success") = 0
  /\ pc = "raised" => ~ENABLED Next

Wit_C8 ==
  /\ error = "EngineError"
  /\ Count("download") = 1

(* C9: in every run the warning precedes every engine call, the inspection *)
(* happens exactly once and before any download, at most one download is   *)
(* made, and the success dialog follows a download that returned.          *)
Cex_C9 ==
  /\ \A w \in At("warning") : \A e \in EngineCalls : w < e
  /\ Finished => Count("inspect") = 1
  /\ \A d \in At("download") : \E i \in At("inspect") : i < d
  /\ Count("download") <= 1
  /\ \A s \in At("success") : \E r \in At("download_returned") : r < s

(* C10: a resolved index with metadata that is no collection is ignored,   *)
(* whatever its value: no range check, no error, the original URL is the   *)
(* only target downloaded, and a run that returns has downloaded it and    *)
(* shown the success dialog.                                               *)
Thm_C10 ==
  (IndexResolved /\ index # None /\ info # None /\ ~IsCollection) =>
    /\ Count("critical") = 0
    /\ Count("print_playlist") = 0
    /\ \A i \in At("download") : log[i].arg = <<video_url>>
    /\ Count("download") = (IF pc = "plan" THEN 0 ELSE 1)
    /\ pc = "returned" => Count("success") = 1
    /\ error # "EngineError" => pc \in {"plan", "success_box", "returned"}

Wit_C10 ==
  /\ index = Some(0 - 3)
  /\ info # None
  /\ ~IsCollection
  /\ pc = "returned"
  /\ Count("success") = 1
====
